---- MODULE Spec2Model ----
(***************************************************************************)
(* Recipe transcriber: the transcription task (the job orchestrator), the  *)
(* two-pass Ollama service with its structuring retry ladder, and the web  *)
(* application's record store with its two webhook handlers.               *)
(*                                                                         *)
(* The task's first parameter, job_id, is the correlation key of the job:  *)
(* models.py:128 marks job_id "to be renamed external_recipe_id", and the  *)
(* routes pass job.external_recipe_id for it.  The model uses one key,     *)
(* external_recipe_id, for both names.                                     *)
(***************************************************************************)
EXTENDS Integers, Sequences, FiniteSets, TLC

(* ------------------------------ bounds --------------------------------- *)
NumIds == 1
MaxQueue == 1
MaxTime == 12
TickStep == 6
MaxFiles == 2
MaxSegments == 3
MaxList == 2
NumHandlers == 2
NumJobs == 2

(* ------------------------- program constants --------------------------- *)
TIMEOUT_MINUTES == 10
MaxAttempts == 3

VARIABLES skipOllama, now, nextId, files, jobs, recipes, queue, run,
          given,    \* the answers the models gave to the current run, in order
          input,    \* the argument of a function applied on its own
          output,   \* and its result
          handlers, \* the record_recipe requests in progress, statement by statement
          rows      \* the rows of table recipes as those requests see them

vars == <<skipOllama, now, nextId, files, jobs, recipes, queue, run, given, input, output,
          handlers, rows>>

Ids == 1..NumIds

(* ------------------------- Python values ------------------------------- *)
\* None, str, list and int values are told apart by their tag.
NoneV == [t |-> "none"]
Str(s) == [t |-> "str", s |-> s]
\* A datetime; only its presence is ever read.
TimeV(n) == [t |-> "time"]
ListV(l) == [t |-> "list", l |-> l]
IntV(n) == [t |-> "int", n |-> n]

(* ----------------------------- messages -------------------------------- *)
MsgUploadReceived == "Upload received. Queued for processing..."
MsgReprocessRequested == "Reprocessing requested. Queued for processing..."
MsgStarting == "Starting transcription..."
MsgParsing == "Parsing response from model..."
MsgTimedOut == "Processing timed out. Please try reprocessing this recipe."

(* ------------------------- the record store ---------------------------- *)
\* TranscriptionJob(external_recipe_id, session_id, image_path, status, last_status)
NewJob(image_path, last_status, t) ==
    [ status        |-> "pending",
      last_status   |-> last_status,
      error_message |-> NoneV,
      completed_at  |-> NoneV,
      created_at    |-> t,
      image_path    |-> image_path ]

\* The check of recipes() on one active job: processing and created more than
\* TIMEOUT_MINUTES ago.
TimedOut(job, t) ==
    /\ job.completed_at = NoneV
    /\ job.status = "processing"
    /\ job.created_at < t - TIMEOUT_MINUTES

\* recipes(): the timeout sweep over the jobs whose completed_at is None.
SweepJobs(js, t) ==
    [ i \in DOMAIN js |->
        IF TimedOut(js[i], t)
        THEN [ js[i] EXCEPT !.status = "failed",
                            !.error_message = Str(MsgTimedOut),
                            !.completed_at = TimeV(t) ]
        ELSE js[i] ]

\* What update_status stores for a job it found.
StatusWritten(job, status, message, t) ==
    IF status = "failed"
    THEN [ job EXCEPT !.status = status,
                      !.last_status = message,
                      !.error_message = Str(message),
                      !.completed_at = TimeV(t) ]
    ELSE [ job EXCEPT !.status = status, !.last_status = message ]

\* Mutant of UpdateStatus: the handler refreshes the results area, and with
\* it runs the sweep, for an id it found no job for as well.
UpdateStatusAlwaysRefreshes(js, id, status, message, t) ==
    IF id \notin DOMAIN js
    THEN SweepJobs(js, t)
    ELSE SweepJobs([ js EXCEPT ![id] = StatusWritten(js[id], status, message, t) ], t)

\* POST /update-status: the jobs table after the handler, its closing
\* recipes() call included.
UpdateStatus(js, id, status, message, t) ==
    IF id \notin DOMAIN js
    THEN js
    ELSE SweepJobs([ js EXCEPT ![id] = StatusWritten(js[id], status, message, t) ], t)

(* ------------------------------ recipes -------------------------------- *)
Ingredient(quantity, unit, item) == [quantity |-> quantity, unit |-> unit, item |-> item]

\* RecipeSchema(...).model_dump(): every field present, optional ones None or str.
DraftOf(d) ==
    IF d = 1
    THEN [ title        |-> "Pancakes",
           ingredients  |-> << Ingredient(Str("2"), Str("cups"), "flour"),
                               Ingredient(NoneV, NoneV, "eggs") >>,
           instructions |-> << "Mix", "Fry" >>,
           prep_time    |-> Str("5 minutes"),
           cook_time    |-> NoneV,
           servings     |-> Str("4"),
           notes        |-> NoneV ]
    ELSE [ title        |-> "X",
           ingredients  |-> << >>,
           instructions |-> << >>,
           prep_time    |-> NoneV,
           cook_time    |-> NoneV,
           servings     |-> NoneV,
           notes        |-> NoneV ]

DraftIds == {1, 2}

\* get_recipe_data under SKIP_OLLAMA=1.
MockRecipe ==
    [ title        |-> "Test Recipe - Mock Data",
      prep_time    |-> Str("15 minutes"),
      cook_time    |-> Str("30 minutes"),
      servings     |-> Str("4"),
      notes        |-> Str("This is mock data for testing. Set SKIP_OLLAMA=0 to use real Ollama."),
      ingredients  |-> << Ingredient(Str("2"), Str("cups"), "flour"),
                          Ingredient(Str("1"), Str("cup"), "sugar"),
                          Ingredient(Str("3"), NoneV, "eggs") >>,
      instructions |-> << "Preheat oven to 350F",
                          "Mix dry ingredients together",
                          "Add wet ingredients and stir",
                          "Pour into baking pan",
                          "Bake for 30 minutes until golden" >> ]

(* --------------------------- normalization ----------------------------- *)
\* Mutant of GetOr: the default is forgotten.
GetOrNoDefault(d, k, default) == IF k \in DOMAIN d THEN d[k] ELSE NoneV

\* dict.get(key) and dict.get(key, default)
Get(d, k) == IF k \in DOMAIN d THEN d[k] ELSE NoneV
GetOr(d, k, default) == IF k \in DOMAIN d THEN d[k] ELSE default

\* Python truthiness of a value.
Truthy(v) ==
    CASE v.t = "none" -> FALSE
      [] v.t = "str"  -> v.s # ""
      [] v.t = "list" -> v.l # << >>
      [] v.t = "int"  -> v.n # 0
      [] OTHER        -> TRUE

\* sep.join(str(x) for x in l if x) over a list of strings
RECURSIVE JoinTruthy(_, _)
JoinTruthy(l, sep) ==
    IF l = << >> THEN ""
    ELSE LET rest == JoinTruthy(Tail(l), sep)
         IN  IF Head(l) = "" THEN rest
             ELSE IF rest = "" THEN Head(l) ELSE Head(l) \o sep \o rest

\* Mutant of NormalizeJoined: every list is joined with ", ".
NormalizeJoinedWithComma(v, sep) ==
    IF v.t = "list" THEN Str(JoinTruthy(v.l, ", ")) ELSE v

\* cook_time and notes: a list becomes one string.
NormalizeJoined(v, sep) ==
    IF v.t = "list" THEN Str(JoinTruthy(v.l, sep)) ELSE v

\* str(servings)
StrOf(v) ==
    CASE v.t = "int"  -> Str(ToString(v.n))
      [] v.t = "list" -> Str("[...]")
      [] OTHER        -> v

NormalizeServings(v) ==
    IF Truthy(v) /\ v.t # "str" THEN StrOf(v) ELSE v

\* The JSON body of the completion POST, built from recipe_data.
CompletionPayload(id, recipe_data) ==
    [ external_recipe_id |-> id,
      title        |-> GetOr(recipe_data, "title", "Untitled Recipe"),
      prep_time    |-> Get(recipe_data, "prep_time"),
      cook_time    |-> NormalizeJoined(Get(recipe_data, "cook_time"), ", "),
      servings     |-> NormalizeServings(Get(recipe_data, "servings")),
      ingredients  |-> GetOr(recipe_data, "ingredients", << >>),
      instructions |-> GetOr(recipe_data, "instructions", << >>),
      notes        |-> NormalizeJoined(Get(recipe_data, "notes"), "\n") ]

(* ---------------------- POST /record-recipe ---------------------------- *)
\* The keys record_recipe reads with data[...]: a missing one is a KeyError.
RequiredKeys ==
    {"external_recipe_id", "title", "image_path", "prep_time", "cook_time",
     "servings", "notes"}

StoredIngredients(data) ==
    IF "ingredients" \in DOMAIN data
    THEN [ index \in 1..Len(data.ingredients) |->
             [ item     |-> data.ingredients[index].item,
               quantity |-> data.ingredients[index].quantity,
               unit     |-> data.ingredients[index].unit,
               order    |-> index ] ]
    ELSE << >>

StoredInstructions(data) ==
    IF "instructions" \in DOMAIN data
    THEN [ index \in 1..Len(data.instructions) |->
             [ step_number |-> index, description |-> data.instructions[index] ] ]
    ELSE << >>

StoredRecipe(data) ==
    [ title        |-> data.title,
      image_path   |-> data.image_path,
      prep_time    |-> data.prep_time,
      cook_time    |-> data.cook_time,
      servings     |-> data.servings,
      notes        |-> data.notes,
      ingredients  |-> StoredIngredients(data),
      instructions |-> StoredInstructions(data) ]

\* Mutant of Upsert: an entry already stored under the key is kept.
UpsertKeepsExisting(f, k, v) ==
    [ x \in DOMAIN f \cup {k} |-> IF x \in DOMAIN f THEN f[x] ELSE v ]

Upsert(f, k, v) == [ x \in DOMAIN f \cup {k} |-> IF x = k THEN v ELSE f[x] ]

CompletedJobs(js, id, t) ==
    IF id \in DOMAIN js
    THEN [ js EXCEPT ![id] = [ @ EXCEPT !.status = "completed",
                                        !.completed_at = TimeV(t) ] ]
    ELSE js

\* The store after record_recipe: unchanged when the handler raises before its
\* commit, else the upserted recipe, the completed job and the closing sweep.
RecordRecipe(js, rs, data, t) ==
    IF ~ (RequiredKeys \subseteq DOMAIN data)
    THEN [ jobs |-> js, recipes |-> rs ]
    ELSE [ jobs    |-> SweepJobs(CompletedJobs(js, data.external_recipe_id, t), t),
           recipes |-> Upsert(rs, data.external_recipe_id, StoredRecipe(data)) ]

(* --------------------------- Ollama service ---------------------------- *)
\* Texts a model may put in message.content or message.thinking in the
\* extraction pass: empty, whitespace only, or visible text.
ExtractTexts == {"", " ", "text"}

\* str.strip() on those texts.
Strip(s) == IF s = " " THEN "" ELSE s

\* extracted_text of transcribe_recipe: content, or thinking when content is empty.
ExtractedText(content, thinking) ==
    IF content = "" /\ thinking # "" THEN thinking ELSE content

\* The empty-extraction check of transcribe_recipe.
EmptyExtraction(extracted_text) ==
    extracted_text = "" \/ Strip(extracted_text) = ""

\* Response texts of the structuring pass, by what json.loads, RecipeSchema and
\* the defensive extractor make of them:
\*   object_ok   a JSON object that satisfies RecipeSchema
\*   object_bad  a JSON object that fails RecipeSchema (no title)
\*   nonobject   valid JSON that is not an object (a list)
\*   fenced_ok   prose around a fenced json block holding an object_ok
\*   fenced_bad  prose around a fenced json block holding an object_bad
\*   prose       text without braces
\*   empty       the empty string
Text(kind, draft) == [kind |-> kind, draft |-> draft]
EmptyText == Text("empty", 0)

StructTexts ==
    { Text(k, d) : k \in {"object_ok", "fenced_ok"}, d \in DraftIds }
    \cup { Text(k, 0) : k \in {"object_bad", "nonobject", "fenced_bad", "prose"} }
    \cup { EmptyText }

\* response_text of _structure_text_to_recipe: content, or thinking when
\* content is empty.
ResponseText(content, thinking) ==
    IF content = EmptyText /\ thinking # EmptyText THEN thinking ELSE content

\* json.loads(response_text): "dict", "other" (valid JSON, not an object) or
\* "JSONDecodeError".
JsonLoads(text) ==
    CASE text.kind \in {"object_ok", "object_bad"} -> "dict"
      [] text.kind = "nonobject" -> "other"
      [] OTHER -> "JSONDecodeError"

\* Mutant of SchemaValid: every object passes.
SchemaValidAlways(text) == TRUE

\* RecipeSchema(**recipe_json) on a parsed dict: whether validation passes.
SchemaValid(text) == text.kind \in {"object_ok", "fenced_ok"}

\* A text as the defensive extractor reads it, a sequence of segments:
\*   Prose        characters without a brace or a fence
\*   OpenBrace    an opening brace that starts no substring json.loads accepts
\*   Object(o)    the text of JSON object o
\*   Fenced(o)    a fenced json block whose body is the text of JSON object o
\*   FencedJunk   a fenced json block whose body, in braces, is not JSON
\*   Array        the text of a JSON array
\* Objects 1 and 2 are the drafts of DraftOf; object 0 has no title and fails
\* RecipeSchema.
Prose == [seg |-> "prose"]
OpenBrace == [seg |-> "brace"]
Object(o) == [seg |-> "object", obj |-> o]
Fenced(o) == [seg |-> "fenced", obj |-> o]
FencedJunk == [seg |-> "fenced_junk"]
Array == [seg |-> "array"]

Segments(text) ==
    CASE text.kind = "object_ok"  -> << Object(text.draft) >>
      [] text.kind = "object_bad" -> << Object(0) >>
      [] text.kind = "nonobject"  -> << Array >>
      [] text.kind = "fenced_ok"  -> << Prose, Fenced(text.draft), Prose >>
      [] text.kind = "fenced_bad" -> << Prose, Fenced(0), Prose >>
      [] text.kind = "prose"      -> << Prose >>
      [] OTHER                    -> << >>

\* A parsed JSON object.
Dict(o) == [t |-> "dict", obj |-> o]

\* The position of the first segment of one of `kinds`, 0 when there is none.
FirstOf(segs, kinds) ==
    LET found == { i \in 1..Len(segs) : segs[i].seg \in kinds }
    IN  IF found = {} THEN 0 ELSE CHOOSE i \in found : \A j \in found : i <= j

\* re.search of the fenced-block pattern: the first fenced json block.
FenceSearch(segs) == FirstOf(segs, {"fenced", "fenced_junk"})

\* Whether the brace scan is reached: no fenced block matched, or json.loads
\* rejected the body of the one that did.
BraceScanReached(segs) ==
    /\ segs # << >>
    /\ FenceSearch(segs) = 0 \/ segs[FenceSearch(segs)].seg = "fenced_junk"

\* Mutant of BraceScan: the scan gives up at the first opening brace.
BraceScanFirstBraceOnly(segs) ==
    LET start == FirstOf(segs, {"brace", "object", "fenced", "fenced_junk"})
    IN  IF start # 0 /\ segs[start].seg \in {"object", "fenced"}
        THEN Dict(segs[start].obj) ELSE NoneV

\* The brace scan: every opening brace in order, for each the substrings that
\* start there from the longest to the shortest; the first that json.loads
\* accepts is returned.
BraceScan(segs) ==
    LET start == FirstOf(segs, {"object", "fenced"})
    IN  IF start # 0 THEN Dict(segs[start].obj) ELSE NoneV

\* Mutant of ExtractJsonFromText: the brace scan runs before the search for a
\* fenced block.
ExtractJsonFromTextScanFirst(segs) ==
    IF segs = << >> THEN NoneV
    ELSE IF BraceScan(segs) # NoneV THEN BraceScan(segs)
    ELSE IF FenceSearch(segs) # 0 /\ segs[FenceSearch(segs)].seg = "fenced"
    THEN Dict(segs[FenceSearch(segs)].obj)
    ELSE NoneV

\* _extract_json_from_text(text)
ExtractJsonFromText(segs) ==
    IF segs = << >> THEN NoneV
    ELSE IF ~ BraceScanReached(segs) THEN Dict(segs[FenceSearch(segs)].obj)
    ELSE BraceScan(segs)

\* RecipeSchema(**extracted) on an extracted object.
ObjectValid(extracted) == extracted.obj \in DraftIds

\* One attempt of the ladder on a response text:
\*   "return"    json.loads and RecipeSchema pass, the draft is returned
\*   "retry"     JSONDecodeError or ValidationError, caught by the loop
\*   "TypeError" RecipeSchema(**x) on a non-mapping, not caught by the loop
AttemptOutcome(text) ==
    CASE JsonLoads(text) = "JSONDecodeError" -> "retry"
      [] JsonLoads(text) = "other" -> "TypeError"
      [] SchemaValid(text) -> "return"
      [] OTHER -> "retry"

\* Mutant of CorrectiveMessages: the corrective message is appended to the
\* conversation so far instead of to the original instructions.
CorrectiveMessagesAccumulating(messages) == Append(messages, "corrective")

\* The messages of the first structuring call, and of a call after a failure.
InitialMessages == << "system", "user" >>
CorrectiveMessages(messages) == << "system", "user", "corrective" >>

\* Mutant of HasNextAttempt: the loop bound is off by one.
HasNextAttemptOffByOne(attempt) == attempt + 1 <= MaxAttempts

\* for attempt in range(3): whether another attempt follows attempt number
\* `attempt` (0-based).
HasNextAttempt(attempt) == attempt + 1 < MaxAttempts

\* The fallback after the loop, over last_response_text.
DefensiveOutcome(last_response_text) ==
    LET extracted == ExtractJsonFromText(Segments(last_response_text))
    IN  IF extracted # NoneV /\ ObjectValid(extracted) THEN "return" ELSE "Exception"

\* The draft the fallback returns.
DefensiveDraft(last_response_text) ==
    DraftOf(ExtractJsonFromText(Segments(last_response_text)).obj)

(* ------------------------- transcription task -------------------------- *)
\* The message apply_async puts on the task queue.
TaskMessage(id, image_path, is_reprocessing) ==
    [ external_recipe_id |-> id, image_path |-> image_path,
      is_reprocessing |-> is_reprocessing ]

\* The worker before its first task.
IdleRun ==
    [ external_recipe_id |-> 0,
      image_path         |-> 0,
      is_reprocessing    |-> FALSE,
      pc                 |-> "idle",
      attempt            |-> 0,
      messages           |-> << >>,
      last_response_text |-> [kind |-> "empty", draft |-> 0],
      recipe_data        |-> NoneV,
      calls              |-> << >>,
      error              |-> "" ]

\* One execution of transcribe_recipe_task, at its first statement.
NewRun(task) ==
    [ IdleRun EXCEPT !.external_recipe_id = task.external_recipe_id,
                     !.image_path = task.image_path,
                     !.is_reprocessing = task.is_reprocessing,
                     !.pc = "start" ]

\* The outbound calls a run makes, in order.
StatusCall(id, status, message, delivered) ==
    [ op |-> "status", external_recipe_id |-> id, status |-> status,
      message |-> message, delivered |-> delivered ]
ChatCall(pass, messages) ==
    [ op |-> "chat", pass |-> pass, messages |-> messages ]
CompleteCall(payload, delivered) ==
    [ op |-> "complete", external_recipe_id |-> payload.external_recipe_id,
      payload |-> payload, delivered |-> delivered ]

\* The locals of _structure_text_to_recipe are gone once it is left.
LeftService(r) ==
    [ r EXCEPT !.attempt = 0, !.messages = << >>, !.last_response_text = EmptyText ]

\* except Exception as e: raise -- the error leaves the task as it was raised,
\* and no call is made on the way out.
Raised(r, e) == [ LeftService(r) EXCEPT !.pc = "raised", !.error = e ]

\* publish_status: requests.post to the status hook, not guarded; a transport
\* failure is an exception in the task.
PublishStatus(r, status, message, delivered, next) ==
    LET logged == [ r EXCEPT !.calls =
                      Append(@, StatusCall(r.external_recipe_id, status, message, delivered)) ]
    IN  IF delivered THEN [ logged EXCEPT !.pc = next ]
        ELSE Raised(logged, "ConnectionError")

Ended(r) == r.pc \in {"idle", "done", "raised"}

\* Mutant of TaskStart: the task goes to the service without announcing
\* "processing" first.
TaskStartUnannounced(delivered) ==
    /\ Ended(run)
    /\ queue # << >>
    /\ run' = [ NewRun(Head(queue)) EXCEPT !.pc = "get_recipe_data" ]
    /\ queue' = Tail(queue)
    /\ UNCHANGED <<handlers, rows, given, input, output, skipOllama, now, nextId, files, jobs, recipes>>

\* The worker takes the next task; its first statement is
\* publish_status(job_id, 'processing', 'Starting transcription...', hook)
TaskStart(delivered) ==
    /\ Ended(run)
    /\ queue # << >>
    /\ run' = PublishStatus(NewRun(Head(queue)), "processing", MsgStarting, delivered,
                            "get_recipe_data")
    /\ queue' = Tail(queue)
    /\ jobs' = IF delivered
               THEN UpdateStatus(jobs, Head(queue).external_recipe_id, "processing",
                                 MsgStarting, now)
               ELSE jobs
    /\ UNCHANGED <<handlers, rows, given, input, output, skipOllama, now, nextId, files, recipes>>

\* Mutant of Extracted: an empty extraction goes on to the structuring pass.
ExtractedUnchecked(r, content, thinking) ==
    [ r EXCEPT !.calls = Append(@, ChatCall("extract", << "user+image" >>)),
               !.pc = "structure", !.attempt = 0, !.messages = InitialMessages ]

\* The run after the extraction pass answered with (content, thinking).
Extracted(r, content, thinking) ==
    LET called == [ r EXCEPT !.calls = Append(@, ChatCall("extract", << "user+image" >>)) ]
    IN  IF EmptyExtraction(ExtractedText(content, thinking))
        THEN Raised(called, "EmptyExtraction")
        ELSE [ called EXCEPT !.pc = "structure", !.attempt = 0,
                             !.messages = InitialMessages ]

\* Mutant of GetRecipeData: the image file is not checked before the vision
\* model is called.
GetRecipeDataUnchecked ==
    /\ run.pc = "get_recipe_data"
    /\ \/ /\ skipOllama
          /\ run' = [ run EXCEPT !.pc = "parsing", !.recipe_data = MockRecipe ]
       \/ /\ ~ skipOllama
          /\ \/ \E content \in ExtractTexts, thinking \in ExtractTexts :
                   run' = Extracted(run, content, thinking)
             \/ run' = Raised([ run EXCEPT !.calls =
                                  Append(@, ChatCall("extract", << "user+image" >>)) ],
                              "OllamaError")
    /\ UNCHANGED <<handlers, rows, given, input, output, skipOllama, now, nextId, files, jobs, recipes, queue>>

\* recipe_data = get_recipe_data(image_path), up to the end of the first pass.
GetRecipeData ==
    /\ run.pc = "get_recipe_data"
    /\ \/ /\ skipOllama
          /\ run' = [ run EXCEPT !.pc = "parsing", !.recipe_data = MockRecipe ]
       \/ /\ ~ skipOllama
          /\ run.image_path \notin files
          /\ run' = Raised(run, "FileNotFoundError")
       \/ /\ ~ skipOllama
          /\ run.image_path \in files
          /\ \/ \E content \in ExtractTexts, thinking \in ExtractTexts :
                   run' = Extracted(run, content, thinking)
             \/ run' = Raised([ run EXCEPT !.calls =
                                  Append(@, ChatCall("extract", << "user+image" >>)) ],
                              "OllamaError")
    /\ UNCHANGED <<handlers, rows, given, input, output, skipOllama, now, nextId, files, jobs, recipes, queue>>

\* Mutant of Structured: on success the draft of the response before this
\* one is returned.
StructuredStale(r, text) ==
    LET called == [ r EXCEPT !.calls = Append(@, ChatCall("structure", r.messages)),
                             !.last_response_text = text ]
        done   == [ LeftService(called) EXCEPT !.pc = "parsing",
                                               !.recipe_data = DraftOf(r.last_response_text.draft) ]
        failed == [ called EXCEPT !.messages = CorrectiveMessages(r.messages) ]
        defended == [ LeftService(called) EXCEPT !.pc = "parsing",
                                                 !.recipe_data = DefensiveDraft(text) ]
    IN  CASE AttemptOutcome(text) = "return" -> done
          [] AttemptOutcome(text) = "TypeError" -> Raised(called, "TypeError")
          [] HasNextAttempt(r.attempt) -> [ failed EXCEPT !.attempt = @ + 1 ]
          [] DefensiveOutcome(text) = "return" -> defended
          [] OTHER -> Raised(failed, "StructuringFailure")

\* The run after one structuring call answered with `text`.
Structured(r, text) ==
    LET called == [ r EXCEPT !.calls = Append(@, ChatCall("structure", r.messages)),
                             !.last_response_text = text ]
        done   == [ LeftService(called) EXCEPT !.pc = "parsing",
                                               !.recipe_data = DraftOf(text.draft) ]
        failed == [ called EXCEPT !.messages = CorrectiveMessages(r.messages) ]
        defended == [ LeftService(called) EXCEPT !.pc = "parsing",
                                                 !.recipe_data = DefensiveDraft(text) ]
    IN  CASE AttemptOutcome(text) = "return" -> done
          [] AttemptOutcome(text) = "TypeError" -> Raised(called, "TypeError")
          [] HasNextAttempt(r.attempt) -> [ failed EXCEPT !.attempt = @ + 1 ]
          [] DefensiveOutcome(text) = "return" -> defended
          [] OTHER -> Raised(failed, "StructuringFailure")

\* The answers of the structuring model: (content, thinking).
StructAnswers ==
    { << text, EmptyText >> : text \in StructTexts }
    \cup { << EmptyText, Text("object_ok", 2) >> }

\* One iteration of the loop of _structure_text_to_recipe; the last one runs
\* the defensive extraction too.
Structure ==
    /\ run.pc = "structure"
    /\ \/ \E answer \in StructAnswers :
             run' = Structured(run, ResponseText(answer[1], answer[2]))
       \/ run' = Raised([ run EXCEPT !.calls =
                            Append(@, ChatCall("structure", run.messages)) ],
                        "OllamaError")
    /\ UNCHANGED <<handlers, rows, given, input, output, skipOllama, now, nextId, files, jobs, recipes, queue>>

\* Mutant of TaskParsing: the task itself announces the job as completed.
TaskParsingAnnouncesCompleted(delivered) ==
    /\ run.pc = "parsing"
    /\ run' = PublishStatus(run, "completed", MsgParsing, delivered, "complete")
    /\ jobs' = IF delivered
               THEN UpdateStatus(jobs, run.external_recipe_id, "completed", MsgParsing, now)
               ELSE jobs
    /\ UNCHANGED <<handlers, rows, given, input, output, skipOllama, now, nextId, files, recipes, queue>>

\* publish_status(job_id, 'processing', 'Parsing response from model...', hook)
TaskParsing(delivered) ==
    /\ run.pc = "parsing"
    /\ run' = PublishStatus(run, "processing", MsgParsing, delivered, "complete")
    /\ jobs' = IF delivered
               THEN UpdateStatus(jobs, run.external_recipe_id, "processing", MsgParsing, now)
               ELSE jobs
    /\ UNCHANGED <<handlers, rows, given, input, output, skipOllama, now, nextId, files, recipes, queue>>

\* Mutant of PostCompletion: the completion POST is sent a second time.
PostCompletionTwice(r, delivered) ==
    LET payload == CompletionPayload(r.external_recipe_id, r.recipe_data)
        logged  == [ r EXCEPT !.calls = Append(Append(@, CompleteCall(payload, delivered)),
                                               CompleteCall(payload, delivered)) ]
    IN  IF delivered THEN [ logged EXCEPT !.pc = "done" ]
        ELSE Raised(logged, "ConnectionError")

\* Normalization and requests.post(processing_complete_hook, json=...).
PostCompletion(r, delivered) ==
    LET payload == CompletionPayload(r.external_recipe_id, r.recipe_data)
        logged  == [ r EXCEPT !.calls = Append(@, CompleteCall(payload, delivered)) ]
    IN  IF delivered THEN [ logged EXCEPT !.pc = "done" ]
        ELSE Raised(logged, "ConnectionError")

TaskComplete(delivered) ==
    /\ run.pc = "complete"
    /\ run' = PostCompletion(run, delivered)
    /\ LET payload == CompletionPayload(run.external_recipe_id, run.recipe_data)
           store   == IF delivered THEN RecordRecipe(jobs, recipes, payload, now)
                      ELSE [ jobs |-> jobs, recipes |-> recipes ]
       IN  jobs' = store.jobs /\ recipes' = store.recipes
    /\ UNCHANGED <<handlers, rows, given, input, output, skipOllama, now, nextId, files, queue>>

(* ------------------------------ routes --------------------------------- *)
ALLOWED_EXTENSIONS == {"png", "jpg", "jpeg", "webp"}

\* The file names a request may carry; "" is a part without a file name.
Filenames == {"recipe.jpg", "notes.txt", ""}

\* filename.rsplit(".", 1)[1].lower()
LowerExtension(filename) ==
    CASE filename = "recipe.jpg" -> "jpg"
      [] filename = "notes.txt"  -> "txt"
      [] OTHER -> ""

allowed_file(filename) ==
    /\ filename \in {"recipe.jpg", "notes.txt"}
    /\ LowerExtension(filename) \in ALLOWED_EXTENSIONS

\* Mutant of Accepted: any named file is taken, whatever its extension.
AcceptedAnyName(filename) == filename # ""

Accepted(filename) == filename # "" /\ allowed_file(filename)

\* The image path under which the upload of job `id` is saved.
PathOf(id) == NumIds + id

\* The loop of upload_image over the files of the request: each accepted file
\* is saved, gets a pending job under a fresh id and one enqueued task.
RECURSIVE UploadFiles(_, _)
UploadFiles(fs, st) ==
    IF fs = << >> THEN st
    ELSE IF ~ Accepted(Head(fs)) THEN UploadFiles(Tail(fs), st)
    ELSE UploadFiles(Tail(fs),
           [ nextId |-> st.nextId + 1,
             files  |-> st.files \cup {PathOf(st.nextId)},
             jobs   |-> Upsert(st.jobs, st.nextId,
                               NewJob(PathOf(st.nextId), MsgUploadReceived, st.now)),
             queue  |-> Append(st.queue, TaskMessage(st.nextId, PathOf(st.nextId), FALSE)),
             now    |-> st.now ])

NumAccepted(fs) == Cardinality({ i \in 1..Len(fs) : Accepted(fs[i]) })

Requests == UNION { [1..n -> Filenames] : n \in 0..MaxFiles }

\* POST /upload
\* str(uuid.uuid1()): the ids the request hands out are ids of no job and of
\* no recipe.
FreshIds(fs) ==
    \A id \in nextId..(nextId + NumAccepted(fs) - 1) :
        id \notin DOMAIN jobs \cup DOMAIN recipes

upload_image(fs) ==
    /\ nextId + NumAccepted(fs) <= NumIds + 1
    /\ FreshIds(fs)
    /\ Len(queue) + NumAccepted(fs) <= MaxQueue
    /\ LET st == UploadFiles(fs, [ nextId |-> nextId, files |-> files, jobs |-> jobs,
                                   queue |-> queue, now |-> now ])
       IN  /\ nextId' = st.nextId
           /\ files' = st.files
           /\ jobs' = st.jobs
           /\ queue' = st.queue
    /\ UNCHANGED <<handlers, rows, given, input, output, skipOllama, now, recipes, run>>

\* GET /recipes
recipes_view ==
    /\ jobs' = SweepJobs(jobs, now)
    /\ UNCHANGED <<handlers, rows, given, input, output, skipOllama, now, nextId, files, recipes, queue, run>>

\* Mutant of ReprocessJob: the reset of an existing job leaves completed_at.
ReprocessJobKeepsCompletedAt(js, id, image_path, t) ==
    IF id \notin DOMAIN js
    THEN NewJob(image_path, MsgReprocessRequested, t)
    ELSE [ js[id] EXCEPT !.status = "pending",
                         !.last_status = MsgReprocessRequested ]

\* The job reprocess_recipe leaves for the recipe: a new pending one, or the
\* existing one reset.
ReprocessJob(js, id, image_path, t) ==
    IF id \notin DOMAIN js
    THEN NewJob(image_path, MsgReprocessRequested, t)
    ELSE [ js[id] EXCEPT !.status = "pending",
                         !.last_status = MsgReprocessRequested,
                         !.completed_at = NoneV ]

\* POST /recipes/<id>/reprocess
reprocess_recipe(id) ==
    /\ Len(queue) < MaxQueue
    /\ IF id \notin DOMAIN recipes
       THEN UNCHANGED <<jobs, queue>>
       ELSE /\ jobs' = Upsert(jobs, id, ReprocessJob(jobs, id, recipes[id].image_path, now))
            /\ queue' = Append(queue, TaskMessage(id, recipes[id].image_path, TRUE))
    /\ UNCHANGED <<handlers, rows, given, input, output, skipOllama, now, nextId, files, recipes, run>>

\* POST /recipes/<id>/delete
delete_recipe(id) ==
    /\ IF id \notin DOMAIN recipes
       THEN UNCHANGED <<files, recipes, jobs>>
       ELSE /\ files' = files \ {recipes[id].image_path}
            /\ recipes' = [ x \in DOMAIN recipes \ {id} |-> recipes[x] ]
            /\ jobs' = SweepJobs(jobs, now)
    /\ UNCHANGED <<handlers, rows, given, input, output, skipOllama, now, nextId, queue, run>>

\* A completion payload in the shape record_recipe reads, from any client of
\* the unauthenticated webhook.
FullPayload(id, d) ==
    [ k \in DOMAIN CompletionPayload(id, DraftOf(d)) \cup {"image_path"} |->
        IF k = "image_path" THEN PathOf(id) ELSE CompletionPayload(id, DraftOf(d))[k] ]

\* POST /record-recipe
record_recipe(id, d) ==
    /\ LET store == RecordRecipe(jobs, recipes, FullPayload(id, d), now)
       IN  jobs' = store.jobs /\ recipes' = store.recipes
    /\ UNCHANGED <<handlers, rows, given, input, output, skipOllama, now, nextId, files, queue, run>>

\* Time passes.
Tick ==
    /\ now < MaxTime
    /\ now' = now + TickStep
    /\ UNCHANGED <<handlers, rows, given, input, output, skipOllama, nextId, files, jobs, recipes, queue, run>>

(* --------------------------- specification ----------------------------- *)
\* The application after create_app(): empty tables, no upload, an idle worker.
\* A record_recipe request that has not arrived.
IdleHandler ==
    [ pc |-> "idle", d |-> 0, existing |-> 0, ingredients |-> {}, instructions |-> {} ]

Handlers == 1..NumHandlers

Started ==
    /\ handlers = [ h \in Handlers |-> IdleHandler ]
    /\ rows = << >>
    /\ now = 0
    /\ nextId = 1
    /\ files = {}
    /\ jobs = << >>
    /\ recipes = << >>
    /\ queue = << >>
    /\ run = IdleRun
    /\ given = << >>

\* No function applied on its own.
Unset == [t |-> "unset"]

Init ==
    /\ skipOllama \in BOOLEAN
    /\ Started
    /\ input = Unset
    /\ output = Unset

Next ==
    \/ \E fs \in Requests : upload_image(fs)
    \/ recipes_view
    \/ \E id \in Ids : reprocess_recipe(id)
    \/ \E id \in Ids : delete_recipe(id)
    \/ \E id \in Ids, d \in DraftIds : record_recipe(id, d)
    \/ Tick
    \/ \E delivered \in BOOLEAN : TaskStart(delivered)
    \/ GetRecipeData
    \/ Structure
    \/ \E delivered \in BOOLEAN : TaskParsing(delivered)
    \/ \E delivered \in BOOLEAN : TaskComplete(delivered)

Spec == Init /\ [][Next]_vars

\* The steps of the Celery worker: it takes a queued task when it is free and
\* runs the task body statement after statement.
WorkerStep ==
    \/ \E delivered \in BOOLEAN : TaskStart(delivered)
    \/ GetRecipeData
    \/ Structure
    \/ \E delivered \in BOOLEAN : TaskParsing(delivered)
    \/ \E delivered \in BOOLEAN : TaskComplete(delivered)

\* The application with a worker that keeps running: a task that can take its
\* next step takes it. Requests of users and of other clients come when they
\* come; nothing in the code schedules one.
LiveSpec == Init /\ [][Next]_vars /\ WF_vars(WorkerStep)

(* --------------------- the record store on its own --------------------- *)
\* The routes that write the jobs table, called by the runs of several
\* workers and by users, for jobs that were uploaded together.
StoreIds == 1..NumJobs

\* An id no job was created with.
UnknownId == NumJobs + 1

\* The statuses and messages a caller of the status webhook may post.
PostedStatuses == {"processing", "failed"}
PostedMessages == {MsgStarting, MsgParsing}

StoreInit ==
    /\ skipOllama = FALSE
    /\ now = 0
    /\ nextId = NumJobs + 1
    /\ files = { PathOf(id) : id \in StoreIds }
    /\ jobs = [ id \in StoreIds |-> NewJob(PathOf(id), MsgUploadReceived, 0) ]
    /\ recipes = << >>
    /\ queue = << >>
    /\ run = IdleRun
    /\ given = << >>
    /\ input = Unset
    /\ output = Unset
    /\ handlers = [ h \in Handlers |-> IdleHandler ]
    /\ rows = << >>

\* POST /update-status
update_status(id, status, message) ==
    /\ jobs' = UpdateStatus(jobs, id, status, message, now)
    /\ UNCHANGED <<handlers, rows, given, input, output, skipOllama, now, nextId, files,
                   recipes, queue, run>>

\* Mutant of DeleteFailedJob: the job is deleted whatever its status.
DeleteFailedJobAnyStatus(js, id, t) ==
    IF id \in DOMAIN js
    THEN SweepJobs([ x \in DOMAIN js \ {id} |-> js[x] ], t)
    ELSE js

\* The jobs table after delete_failed_job: a failed job is deleted and the
\* refreshed recipes() runs its sweep; otherwise the request is redirected.
DeleteFailedJob(js, id, t) ==
    IF id \in DOMAIN js /\ js[id].status = "failed"
    THEN SweepJobs([ x \in DOMAIN js \ {id} |-> js[x] ], t)
    ELSE js

\* POST /recipes/<external_recipe_id>/delete-failed-job
delete_failed_job(id) ==
    /\ jobs' = DeleteFailedJob(jobs, id, now)
    /\ UNCHANGED <<handlers, rows, given, input, output, skipOllama, now, nextId, files,
                   recipes, queue, run>>

StoreNext ==
    \/ \E id \in StoreIds \cup {UnknownId}, status \in PostedStatuses,
          message \in PostedMessages : update_status(id, status, message)
    \/ \E id \in StoreIds, d \in DraftIds : record_recipe(id, d)
    \/ \E id \in StoreIds \cup {UnknownId} : delete_failed_job(id)
    \/ recipes_view
    \/ Tick

StoreSpec == StoreInit /\ [][StoreNext]_vars

(* ------------- POST /record-recipe, statement by statement ------------- *)
\* Requests are served concurrently, each in its own database session.  The
\* recipes table has no unique constraint on the key the handler looks up, so
\* it is kept here as its rows; a child row carries in `by` the request that
\* inserted it (0: a row that was there before), which with its position
\* stands for its primary key.
ConcId == 1

ChildIngredients(data, by) ==
    [ index \in 1..Len(StoredIngredients(data)) |->
        [ by       |-> by,
          item     |-> StoredIngredients(data)[index].item,
          quantity |-> StoredIngredients(data)[index].quantity,
          unit     |-> StoredIngredients(data)[index].unit,
          order    |-> StoredIngredients(data)[index].order ] ]

ChildInstructions(data, by) ==
    [ index \in 1..Len(StoredInstructions(data)) |->
        [ by          |-> by,
          step_number |-> StoredInstructions(data)[index].step_number,
          description |-> StoredInstructions(data)[index].description ] ]

\* Recipe(external_recipe_id=..., title=..., ...) with its children.
RecipeRow(data, by) ==
    [ external_recipe_id |-> data.external_recipe_id,
      title        |-> data.title,
      image_path   |-> data.image_path,
      prep_time    |-> data.prep_time,
      cook_time    |-> data.cook_time,
      servings     |-> data.servings,
      notes        |-> data.notes,
      ingredients  |-> ChildIngredients(data, by),
      instructions |-> ChildInstructions(data, by) ]

\* The flush of the update branch: the scalar columns are overwritten, the
\* children the session had loaded are deleted by primary key (a row another
\* request already deleted matches nothing), and the new children are
\* inserted.
UpdatedRow(row, data, by, handler) ==
    [ RecipeRow(data, by) EXCEPT
        !.ingredients  = SelectSeq(row.ingredients,
                                   LAMBDA c : c.by \notin handler.ingredients)
                            \o ChildIngredients(data, by),
        !.instructions = SelectSeq(row.instructions,
                                   LAMBDA c : c.by \notin handler.instructions)
                            \o ChildInstructions(data, by) ]

\* The rows .filter_by(external_recipe_id=...) matches.
Matching(id) == { k \in 1..Len(rows) : rows[k].external_recipe_id = id }

\* The two runs' completion POSTs arrive for a job that is processing; the
\* recipe of an earlier run may be stored.
ConcInit ==
    /\ skipOllama = FALSE
    /\ now = 0
    /\ nextId = ConcId + 1
    /\ files = {PathOf(ConcId)}
    /\ jobs = [ id \in {ConcId} |->
                  [ NewJob(PathOf(ConcId), MsgParsing, 0) EXCEPT !.status = "processing" ] ]
    /\ recipes = << >>
    /\ queue = << >>
    /\ run = IdleRun
    /\ given = << >>
    /\ input = Unset
    /\ output = Unset
    /\ handlers = [ h \in Handlers |-> IdleHandler ]
    /\ \E stored \in {0} \cup DraftIds :
          rows = IF stored = 0 THEN << >>
                 ELSE << RecipeRow(FullPayload(ConcId, stored), 0) >>

\* data = request.get_json()
Receive(h, d) ==
    /\ handlers[h].pc = "idle"
    /\ handlers' = [ handlers EXCEPT ![h] = [ @ EXCEPT !.pc = "query", !.d = d ] ]
    /\ UNCHANGED <<rows, skipOllama, now, nextId, files, jobs, recipes, queue, run,
                   given, input, output>>

\* existing_recipe = db.session.query(Recipe).filter_by(...).one_or_none()
Query(h) ==
    /\ handlers[h].pc = "query"
    /\ handlers' = [ handlers EXCEPT ![h] =
          IF Cardinality(Matching(ConcId)) > 1
          THEN [ @ EXCEPT !.pc = "raised" ]
          ELSE IF Matching(ConcId) = {}
          THEN [ @ EXCEPT !.pc = "commit", !.existing = 0 ]
          ELSE [ @ EXCEPT !.pc = "clear_ingredients",
                          !.existing = CHOOSE k \in Matching(ConcId) : TRUE ] ]
    /\ UNCHANGED <<rows, skipOllama, now, nextId, files, jobs, recipes, queue, run,
                   given, input, output>>

\* existing_recipe.ingredients.clear(): the lazy relationship is loaded here.
ClearIngredients(h) ==
    /\ handlers[h].pc = "clear_ingredients"
    /\ handlers' = [ handlers EXCEPT ![h] =
          [ @ EXCEPT !.pc = "clear_instructions",
                     !.ingredients =
                        { rows[handlers[h].existing].ingredients[i].by :
                            i \in 1..Len(rows[handlers[h].existing].ingredients) } ] ]
    /\ UNCHANGED <<rows, skipOllama, now, nextId, files, jobs, recipes, queue, run,
                   given, input, output>>

\* existing_recipe.instructions.clear()
ClearInstructions(h) ==
    /\ handlers[h].pc = "clear_instructions"
    /\ handlers' = [ handlers EXCEPT ![h] =
          [ @ EXCEPT !.pc = "commit",
                     !.instructions =
                        { rows[handlers[h].existing].instructions[i].by :
                            i \in 1..Len(rows[handlers[h].existing].instructions) } ] ]
    /\ UNCHANGED <<rows, skipOllama, now, nextId, files, jobs, recipes, queue, run,
                   given, input, output>>

\* The job update, db.session.commit() and the push of recipes().
Commit(h) ==
    /\ handlers[h].pc = "commit"
    /\ LET data == FullPayload(ConcId, handlers[h].d)
       IN  rows' = IF handlers[h].existing = 0
                   THEN Append(rows, RecipeRow(data, h))
                   ELSE [ rows EXCEPT ![handlers[h].existing] =
                            UpdatedRow(@, data, h, handlers[h]) ]
    /\ jobs' = SweepJobs(CompletedJobs(jobs, ConcId, now), now)
    /\ handlers' = [ handlers EXCEPT ![h] = [ @ EXCEPT !.pc = "done" ] ]
    /\ UNCHANGED <<skipOllama, now, nextId, files, recipes, queue, run,
                   given, input, output>>

ConcNext ==
    \E h \in Handlers :
        \/ \E d \in DraftIds : Receive(h, d)
        \/ Query(h)
        \/ ClearIngredients(h)
        \/ ClearInstructions(h)
        \/ Commit(h)

ConcSpec == ConcInit /\ [][ConcNext]_vars

(* ------------------------- one run, observed --------------------------- *)
\* The same task steps with the models' answers kept in `given`: the answer of
\* the vision model first, then one answer per structuring call.
ExtractAnswer(content, thinking) ==
    [ pass |-> "extract", content |-> content, thinking |-> thinking ]
StructAnswer(answer) ==
    [ pass |-> "structure", answer |-> answer ]
ErrorAnswer(pass) ==
    [ pass |-> pass, error |-> "ResponseError" ]

GetRecipeDataObserved ==
    /\ run.pc = "get_recipe_data"
    /\ \/ /\ skipOllama
          /\ run' = [ run EXCEPT !.pc = "parsing", !.recipe_data = MockRecipe ]
          /\ given' = << >>
       \/ /\ ~ skipOllama
          /\ run.image_path \notin files
          /\ run' = Raised(run, "FileNotFoundError")
          /\ given' = << >>
       \/ /\ ~ skipOllama
          /\ run.image_path \in files
          /\ \/ \E content \in ExtractTexts, thinking \in ExtractTexts :
                   /\ run' = Extracted(run, content, thinking)
                   /\ given' = << ExtractAnswer(content, thinking) >>
             \/ /\ run' = Raised([ run EXCEPT !.calls =
                                     Append(@, ChatCall("extract", << "user+image" >>)) ],
                                 "OllamaError")
                /\ given' = << ErrorAnswer("extract") >>
    /\ UNCHANGED <<handlers, rows, input, output, skipOllama, now, nextId, files, jobs, recipes, queue>>

StructureObserved ==
    /\ run.pc = "structure"
    /\ \/ \E answer \in StructAnswers :
             /\ run' = Structured(run, ResponseText(answer[1], answer[2]))
             /\ given' = Append(given, StructAnswer(answer))
       \/ /\ run' = Raised([ run EXCEPT !.calls =
                               Append(@, ChatCall("structure", run.messages)) ],
                           "OllamaError")
          /\ given' = Append(given, ErrorAnswer("structure"))
    /\ UNCHANGED <<handlers, rows, input, output, skipOllama, now, nextId, files, jobs, recipes, queue>>

RunNext ==
    \/ \E fs \in Requests : upload_image(fs)
    \/ \E delivered \in BOOLEAN : TaskStart(delivered)
    \/ GetRecipeDataObserved
    \/ StructureObserved
    \/ \E delivered \in BOOLEAN : TaskParsing(delivered)
    \/ \E delivered \in BOOLEAN : TaskComplete(delivered)

RunSpec == Init /\ [][RunNext]_vars

(* ------------------- the defensive extractor alone --------------------- *)
\* _extract_json_from_text applied to every text of up to MaxSegments segments.
SegmentChoices ==
    { Prose, OpenBrace, Object(1), Object(2), Fenced(1), Fenced(2), FencedJunk }

ExtractInputs == UNION { [1..n -> SegmentChoices] : n \in 0..MaxSegments }

ExtractInit ==
    /\ skipOllama = FALSE
    /\ Started
    /\ input \in ExtractInputs
    /\ output = Unset

ApplyExtractJsonFromText ==
    /\ output = Unset
    /\ output' = [ value   |-> ExtractJsonFromText(input),
                   scanned |-> BraceScanReached(input) ]
    /\ UNCHANGED <<handlers, rows, given, input, skipOllama, now, nextId, files, jobs, recipes, queue, run>>

ExtractNext == ApplyExtractJsonFromText

ExtractSpec == ExtractInit /\ [][ExtractNext]_vars

(* ------------------------ normalization alone -------------------------- *)
\* The normalization of transcribe_recipe_task applied to every draft: each key
\* present or absent, cook_time and notes a string, None or a list of up to
\* MaxList strings, servings a string, None or a number.
ListChoices == { ListV(l) : l \in UNION { [1..n -> {"a", "b", ""}] : n \in 0..MaxList } }

\* For each key of a draft: absent, or present with one of its values.
Absent == [absent |-> TRUE]
Present(v) == [v |-> v]
OptionalOf(values) == {Absent} \cup { Present(v) : v \in values }

DraftKeys ==
    {"title", "ingredients", "instructions", "prep_time", "cook_time", "servings", "notes"}

DraftChoices ==
    [ title        : OptionalOf({"T"}),
      ingredients  : OptionalOf({ << Ingredient(NoneV, NoneV, "eggs") >> }),
      instructions : OptionalOf({ << "Mix" >> }),
      prep_time    : OptionalOf({ Str("5 minutes") }),
      cook_time    : OptionalOf({NoneV, Str("30 minutes")} \cup ListChoices),
      servings     : OptionalOf({NoneV, Str("4"), Str(""), IntV(4), IntV(0)}),
      notes        : OptionalOf({NoneV, Str("n")} \cup ListChoices) ]

\* The draft with the keys chosen present.
DraftFrom(choice) ==
    [ k \in { key \in DraftKeys : "v" \in DOMAIN choice[key] } |-> choice[k].v ]

NormalizeInit ==
    /\ skipOllama = FALSE
    /\ Started
    /\ \E choice \in DraftChoices : input = DraftFrom(choice)
    /\ output = Unset

ApplyNormalize ==
    /\ output = Unset
    /\ output' = CompletionPayload(1, input)
    /\ UNCHANGED <<handlers, rows, given, input, skipOllama, now, nextId, files, jobs, recipes, queue, run>>

NormalizeNext == ApplyNormalize

NormalizeSpec == NormalizeInit /\ [][NormalizeNext]_vars

(* ------------------------- reading a run's calls ----------------------- *)
StatusCalls(r) == SelectSeq(r.calls, LAMBDA c : c.op = "status")
CompleteCalls(r) == SelectSeq(r.calls, LAMBDA c : c.op = "complete")
ChatCalls(r) == SelectSeq(r.calls, LAMBDA c : c.op = "chat")
StructureCalls(r) == SelectSeq(r.calls, LAMBDA c : c.op = "chat" /\ c.pass = "structure")
LastCall(r) == r.calls[Len(r.calls)]
IsFailedStatus(c) == c.op = "status" /\ c.status = "failed" /\ Len(c.message) <= 200
TasksFor(i) == { k \in 1..Len(queue) : queue[k].external_recipe_id = i }

(* ------------------------------- claims -------------------------------- *)

\* C1 (as claimed): within one run -- no task for the job waits in the queue, so
\* no new run was submitted since the current one started -- no step takes a
\* job's status from failed back to processing.
C1_NoFailedToProcessing ==
    [][ \A i \in DOMAIN jobs :
          ( /\ i \in DOMAIN jobs'
            /\ jobs[i].status = "failed"
            /\ TasksFor(i) = {} )
          => jobs'[i].status # "processing" ]_vars

\* C2 (as claimed): when the extraction pass or the structuring pass raised, the
\* last call of the run is a status update "failed" with a message of at most
\* 200 characters.
PassErrors ==
    {"FileNotFoundError", "EmptyExtraction", "OllamaError", "TypeError", "StructuringFailure"}

C2_FailedStatusBeforeRaise ==
    (run.pc = "raised" /\ run.error \in PassErrors)
        => (run.calls # << >> /\ IsFailedStatus(LastCall(run)))

\* C3 (as claimed): no run is ended by a status update that failed to be
\* delivered.
C3_StatusFailureNeverAborts ==
    (run.pc = "raised" /\ run.calls # << >>)
        => ~ (LastCall(run).op = "status" /\ ~ LastCall(run).delivered)

\* C4 (as claimed): a run whose completion POST failed at transport raises only
\* after a status update "failed" that follows the completion POST.
C4_FailedStatusAfterCompletionFailure ==
    (run.pc = "raised" /\ \E k \in 1..Len(run.calls) :
                             run.calls[k].op = "complete" /\ ~ run.calls[k].delivered)
        => (LastCall(run).op = "status" /\ LastCall(run).status = "failed")

\* C5: every run that has begun has made a first outbound call, and that call is
\* the status update "processing" announcing the start; so every inference
\* call, failed status and completion POST of the run comes after it.
C5_ProcessingAnnouncedFirst ==
    run.pc # "idle"
        => /\ run.calls # << >>
           /\ run.calls[1].op = "status"
           /\ run.calls[1].status = "processing"
           /\ run.calls[1].message = MsgStarting
           /\ \A k \in 2..Len(run.calls) :
                 run.calls[k].op = "status" => run.calls[k].message # MsgStarting

C5_Witness ==
    /\ run.pc = "raised"
    /\ run.error = "FileNotFoundError"
    /\ Len(run.calls) = 1
    /\ run.calls[1].status = "processing"

ExtractionErrors == {"FileNotFoundError", "EmptyExtraction"}

C7_ExtractionFailureCalls ==
    (run.pc = "raised" /\ run.error \in ExtractionErrors)
        => /\ Len(StatusCalls(run)) = 2
           /\ StatusCalls(run)[1].status = "processing"
           /\ StatusCalls(run)[2].status = "failed"
           /\ CompleteCalls(run) = << >>

\* C8 (as claimed): a run whose image path names no existing file ends raised
\* with the not-found error when it fetches the recipe data, with no inference
\* call made.
C8_MissingImageFails ==
    [][ (run.pc = "get_recipe_data" /\ run.image_path \notin files /\ run' # run)
          => /\ run'.pc = "raised"
             /\ run'.error = "FileNotFoundError"
             /\ ChatCalls(run') = << >> ]_vars

\* C8 (amended): unless SKIP_OLLAMA=1 swaps the service for the mock recipe, a
\* run whose image path names no existing file ends raised with the not-found
\* error; and with or without SKIP_OLLAMA it makes no inference call.
C8_MissingImageNoInference ==
    [][ (run.pc = "get_recipe_data" /\ run.image_path \notin files /\ run' # run)
          => /\ ChatCalls(run') = << >>
             /\ ~ skipOllama => (run'.pc = "raised" /\ run'.error = "FileNotFoundError")
      ]_vars

C8_Witness ==
    /\ ~ skipOllama
    /\ run.pc = "raised"
    /\ run.error = "FileNotFoundError"
    /\ run.image_path \notin files
    /\ ChatCalls(run) = << >>

\* C9: a run makes at most 3 structuring model calls.
C9_AtMostThreeStructureCalls ==
    Len(StructureCalls(run)) <= 3

C9_Witness ==
    /\ Len(StructureCalls(run)) = 3
    /\ run.pc = "raised"
    /\ run.error = "StructuringFailure"

\* C10: the first structuring call carries the system and user instructions
\* alone; every later one carries them plus exactly one corrective message.
C10_OneCorrectiveMessage ==
    \A k \in 1..Len(StructureCalls(run)) :
        StructureCalls(run)[k].messages =
            IF k = 1 THEN << "system", "user" >>
            ELSE << "system", "user", "corrective" >>

C10_Witness ==
    /\ Len(StructureCalls(run)) = 3
    /\ StructureCalls(run)[3].messages = << "system", "user", "corrective" >>
    /\ run.pc = "parsing"

(* ------------------------ reading the answers -------------------------- *)
\* The answers to the structuring calls of the run, in order; they are the
\* run's own once it has called a model.
StructGiven == SelectSeq(given, LAMBDA a : a.pass = "structure")
Answered(a) == "answer" \in DOMAIN a
TextOf(a) == ResponseText(a.answer[1], a.answer[2])
\* The response parses as JSON and validates against RecipeSchema.
ParsesAndValidates(a) ==
    Answered(a) /\ JsonLoads(TextOf(a)) = "dict" /\ SchemaValid(TextOf(a))
CorrectiveCalls(r) ==
    SelectSeq(StructureCalls(r), LAMBDA c : c.messages[Len(c.messages)] = "corrective")
StructureErrors == {"OllamaError", "TypeError", "StructuringFailure"}

\* C11: when the k-th structuring answer of a run parses and validates, the
\* run made exactly k structuring calls (none after it), k-1 of them with a
\* corrective message, the pass returned, and the draft it returned is the
\* one of that k-th answer.
C11_ReturnsAtFirstValidAttempt ==
    ChatCalls(run) # << >> =>
        \A k \in 1..Len(StructGiven) :
            ParsesAndValidates(StructGiven[k])
                => /\ Len(StructGiven) = k
                   /\ Len(StructureCalls(run)) = k
                   /\ Len(CorrectiveCalls(run)) = k - 1
                   /\ run.pc \in {"parsing", "complete", "done", "raised"}
                   /\ run.pc = "raised" => run.error = "ConnectionError"
                   /\ run.recipe_data = DraftOf(TextOf(StructGiven[k]).draft)

\* Scenario B: a fenced answer with one draft, then plain JSON with another.
C11_Witness ==
    /\ run.pc = "done"
    /\ Len(StructGiven) = 2
    /\ Answered(StructGiven[1])
    /\ TextOf(StructGiven[1]) = Text("fenced_ok", 1)
    /\ Answered(StructGiven[2])
    /\ TextOf(StructGiven[2]) = Text("object_ok", 2)
    /\ Len(CorrectiveCalls(run)) = 1
    /\ run.recipe_data = DraftOf(2)

\* C12 (as claimed): a run that the structuring pass failed on an answer of
\* the model (not on a transport error of the model service) made 3
\* structuring calls, and defensive extraction over the third response failed.
AllAnswered == \A k \in 1..Len(StructGiven) : Answered(StructGiven[k])

C12_FailsOnlyAfterThreeCalls ==
    ( /\ ChatCalls(run) # << >>
      /\ run.pc = "raised"
      /\ run.error \in {"TypeError", "StructuringFailure"}
      /\ AllAnswered )
        => /\ Len(StructureCalls(run)) = 3
           /\ Len(StructGiven) = 3
           /\ DefensiveOutcome(TextOf(StructGiven[3])) # "return"

\* The structuring pass returned although no answer parsed and validated:
\* defensive extraction succeeded.
ReturnedDefensively ==
    /\ ChatCalls(run) # << >>
    /\ StructGiven # << >>
    /\ AllAnswered
    /\ \A k \in 1..Len(StructGiven) : ~ ParsesAndValidates(StructGiven[k])
    /\ run.pc \in {"parsing", "complete", "done"}

\* Three failed attempts, the last response holding a fenced json block with a
\* schema-valid object.
ThreeFailuresLastFenced ==
    /\ ChatCalls(run) # << >>
    /\ Len(StructGiven) = 3
    /\ AllAnswered
    /\ \A k \in 1..3 : AttemptOutcome(TextOf(StructGiven[k])) = "retry"
    /\ TextOf(StructGiven[3]).kind = "fenced_ok"

\* The part of C13 about the structuring pass alone: defensive extraction is
\* reached only after 3 failed attempts, reads the third response only, and
\* with a fenced valid object there the pass returns that object.
DefensiveExtractionOverLastResponse ==
    /\ ReturnedDefensively
          => /\ Len(StructGiven) = 3
             /\ Len(StructureCalls(run)) = 3
             /\ TextOf(StructGiven[3]).kind = "fenced_ok"
             /\ run.recipe_data = DraftOf(TextOf(StructGiven[3]).draft)
    /\ ThreeFailuresLastFenced
          => /\ run.pc \in {"parsing", "complete", "done", "raised"}
             /\ run.pc = "raised" => run.error = "ConnectionError"
             /\ run.recipe_data = DraftOf(TextOf(StructGiven[3]).draft)

DefensiveExtractionWitness ==
    /\ ThreeFailuresLastFenced
    /\ TextOf(StructGiven[1]) = Text("fenced_ok", 1)
    /\ TextOf(StructGiven[3]) = Text("fenced_ok", 2)
    /\ run.pc = "done"
    /\ run.recipe_data.title = "X"

\* C13 (as claimed): defensive extraction runs only after 3 failed attempts and
\* over the last response only; with a fenced valid object in the last
\* response the pass returns it, and the job of a run that ended this way is
\* completed.
C13_DefensiveExtractionCompletesJob ==
    /\ DefensiveExtractionOverLastResponse
    /\ (ThreeFailuresLastFenced /\ run.pc = "done")
          => /\ run.external_recipe_id \in DOMAIN jobs
             /\ jobs[run.external_recipe_id].status = "completed"

\* C16 (as claimed): the extraction pass fails with the empty-extraction error
\* exactly when content and thinking are both blank or whitespace-only, and
\* goes on to the structuring pass whenever one of them holds visible text.
Blank(s) == Strip(s) = ""

C16_EmptyExtractionExactlyWhenBothBlank ==
    ( /\ ChatCalls(run) # << >>
      /\ given # << >>
      /\ "content" \in DOMAIN given[1] )
        => ( (run.pc = "raised" /\ run.error = "EmptyExtraction")
               <=> (Blank(given[1].content) /\ Blank(given[1].thinking)) )

(* --------------------- reading an extractor input ---------------------- *)
\* The positions of the structurally valid objects of a text.
ValidAt(segs) == { i \in 1..Len(segs) : segs[i].seg \in {"object", "fenced"} }
FirstValid(segs) == CHOOSE i \in ValidAt(segs) : \A j \in ValidAt(segs) : i <= j
\* The positions of the fenced json blocks, parseable or not.
FencesAt(segs) == { i \in 1..Len(segs) : segs[i].seg \in {"fenced", "fenced_junk"} }
FirstFence(segs) == CHOOSE i \in FencesAt(segs) : \A j \in FencesAt(segs) : i <= j
FirstFenceParses(segs) ==
    FencesAt(segs) # {} /\ segs[FirstFence(segs)].seg = "fenced"

C15_BraceScanOnlyWithoutFence ==
    output # Unset =>
        /\ \A i \in 1..Len(input) :
              ( /\ input[i].seg = "fenced"
                /\ \A j \in 1..(i - 1) : input[j].seg # "fenced" )
                 => output.value = Dict(input[i].obj)
        /\ output.scanned => FencesAt(input) = {}

\* C15 (amended): when the first fenced json block of the text has a body that
\* parses, the extractor returns that object whatever surrounds it and does
\* not scan for braces; the brace scan is used only when the text holds no
\* fenced block or the body of the first one does not parse.
C15_FirstFencedBlockWins ==
    output # Unset =>
        /\ FirstFenceParses(input)
              => /\ output.value = Dict(input[FirstFence(input)].obj)
                 /\ ~ output.scanned
        /\ output.scanned
              => \/ FencesAt(input) = {}
                 \/ input[FirstFence(input)].seg = "fenced_junk"

C15_Witness ==
    /\ output # Unset
    /\ input = << Object(1), Fenced(2), Prose >>
    /\ output.value = Dict(2)
    /\ ~ output.scanned

(* ------------------------- reading a draft ----------------------------- *)
\* sep.join(l), every element kept.
RECURSIVE JoinAll(_, _)
JoinAll(l, sep) ==
    IF l = << >> THEN ""
    ELSE IF Len(l) = 1 THEN l[1]
    ELSE l[1] \o sep \o JoinAll(Tail(l), sep)

NonEmpty(l) == SelectSeq(l, LAMBDA x : x # "")
IsList(v) == v.t = "list"

\* C17 (as claimed): a cook_time or notes list of 2 or more elements is
\* delivered as all its elements joined in order, with ", " for cook_time and
\* a newline for notes; a list of one element, a string, None and an absent
\* key are delivered as they are.
JoinedAsClaimed(v, sep) ==
    IF IsList(v) /\ Len(v.l) >= 2 THEN Str(JoinAll(v.l, sep)) ELSE v

JoinedNonEmpty(v, sep) ==
    IF IsList(v) THEN Str(JoinAll(NonEmpty(v.l), sep)) ELSE v

C19_AbsentKeysFilled ==
    /\ output = Unset => ENABLED ApplyNormalize
    /\ output # Unset =>
          /\ DOMAIN output = DraftKeys \cup {"external_recipe_id"}
          /\ output.title =
                IF "title" \in DOMAIN input THEN input.title ELSE "Untitled Recipe"
          /\ output.ingredients =
                IF "ingredients" \in DOMAIN input THEN input.ingredients ELSE << >>
          /\ output.instructions =
                IF "instructions" \in DOMAIN input THEN input.instructions ELSE << >>

C19_Witness ==
    /\ output # Unset
    /\ DOMAIN input = {"cook_time"}
    /\ output.title = "Untitled Recipe"
    /\ output.ingredients = << >>
    /\ output.instructions = << >>

\* C20 (as claimed): in every stored recipe the i-th instruction (counting
\* from 0) has step_number i+1 and the i-th ingredient has order i.
C20_PositionsFollowArrayOrder ==
    \A id \in DOMAIN recipes :
        /\ \A k \in 1..Len(recipes[id].instructions) :
              recipes[id].instructions[k].step_number = k
        /\ \A k \in 1..Len(recipes[id].ingredients) :
              recipes[id].ingredients[k].order = k - 1

\* C21 (as claimed): every completion payload a run posts holds all the fields
\* record_recipe reads, image_path among them.
PayloadFields ==
    {"external_recipe_id", "image_path", "title", "prep_time", "cook_time", "servings",
     "ingredients", "instructions", "notes"}

C21_CompletionPayloadComplete ==
    \A k \in 1..Len(CompleteCalls(run)) :
        PayloadFields \subseteq DOMAIN CompleteCalls(run)[k].payload

\* C22: every status update a run sends carries processing or failed; a job
\* becomes completed only in a step that stores the recipe of its completion
\* payload; and every recorded status is one of the four.
JobStatuses == {"pending", "processing", "completed", "failed"}

C22_StatusCallsNeverComplete ==
    [][ /\ \A k \in 1..Len(StatusCalls(run')) :
              StatusCalls(run')[k].status \in {"processing", "failed"}
        /\ \A i \in DOMAIN jobs' :
              /\ jobs'[i].status \in JobStatuses
              /\ ( /\ jobs'[i].status = "completed"
                   /\ i \in DOMAIN jobs => jobs[i].status # "completed" )
                    => /\ i \in DOMAIN recipes'
                       /\ run' = run \/ LastCall(run').op = "complete"
      ]_vars

C22_Witness ==
    /\ run.pc = "done"
    /\ Len(StatusCalls(run)) = 2
    /\ run.external_recipe_id \in DOMAIN jobs
    /\ jobs[run.external_recipe_id].status = "completed"

\* C23 (as claimed): the step that ends a run successfully leaves its job
\* completed with a completion time, and a recipe for the job that holds
\* every ingredient and every instruction of the payload delivered.
C23_SuccessfulRunCompletesJob ==
    [][ (run.pc = "complete" /\ run'.pc = "done")
          => LET id == run'.external_recipe_id
                 payload == LastCall(run').payload
             IN  /\ id \in DOMAIN jobs'
                 /\ jobs'[id].status = "completed"
                 /\ jobs'[id].completed_at # NoneV
                 /\ id \in DOMAIN recipes'
                 /\ Len(recipes'[id].ingredients) = Len(payload.ingredients)
                 /\ Len(recipes'[id].instructions) = Len(payload.instructions)
      ]_vars

HoldsPayload(recipe, payload) ==
    /\ recipe.title = payload.title
    /\ recipe.image_path = payload.image_path
    /\ recipe.prep_time = payload.prep_time
    /\ recipe.cook_time = payload.cook_time
    /\ recipe.servings = payload.servings
    /\ recipe.notes = payload.notes
    /\ Len(recipe.ingredients) = Len(payload.ingredients)
    /\ \A i \in 1..Len(payload.ingredients) :
          /\ recipe.ingredients[i].item = payload.ingredients[i].item
          /\ recipe.ingredients[i].quantity = payload.ingredients[i].quantity
          /\ recipe.ingredients[i].unit = payload.ingredients[i].unit
    /\ Len(recipe.instructions) = Len(payload.instructions)
    /\ \A i \in 1..Len(payload.instructions) :
          recipe.instructions[i].description = payload.instructions[i]

\* The store after delivering one payload and then another, the second
\* possibly one tick later.
DeliveredAfter(earlier, later, t) ==
    LET first == RecordRecipe(jobs, recipes, earlier, now)
    IN  RecordRecipe(first.jobs, first.recipes, later, t)

\* C25: every delivery of a completion payload leaves one recipe under the
\* payload's id, holding the payload's fields, ingredients and instructions
\* and nothing else, and leaves the other recipes alone; whatever payload for
\* the id was delivered before it, the store is the one this payload alone
\* leaves, so the last payload wins and a repeated payload changes nothing.
C25_IdempotentUpsert ==
    [][ \A id \in Ids : \A d \in DraftIds :
          record_recipe(id, d) =>
             /\ DOMAIN recipes' = DOMAIN recipes \cup {id}
             /\ HoldsPayload(recipes'[id], FullPayload(id, d))
             /\ \A other \in DOMAIN recipes \ {id} : recipes'[other] = recipes[other]
             /\ \A before \in DraftIds : \A t \in {now, now + TickStep} :
                   DeliveredAfter(FullPayload(id, before), FullPayload(id, d), t)
                      = RecordRecipe(jobs, recipes, FullPayload(id, d), t)
      ]_vars

\* The recipe of a second payload is stored under an id, its job completed.
C25_Witness ==
    \E id \in DOMAIN recipes :
        /\ HoldsPayload(recipes[id], FullPayload(id, 2))
        /\ id \in DOMAIN jobs
        /\ jobs[id].status = "completed"

\* No call of the current run failed to return: no transport error of the
\* model client or of a webhook call left the task.
AllCallsReturn == run.error \notin {"OllamaError", "ConnectionError"}

\* A run for the id has started and its job is recorded as processing.
RunStarted(id) ==
    /\ run.external_recipe_id = id
    /\ run.pc # "idle"
    /\ id \in DOMAIN jobs
    /\ jobs[id].status = "processing"

\* The run has ended and the job is recorded as completed or failed.
JobSettled(id) ==
    /\ Ended(run)
    /\ id \in DOMAIN jobs
    /\ jobs[id].status \in {"completed", "failed"}

\* C26: when every model call and webhook call returns, a run that has
\* started with its job recorded as processing ends, and the job is
\* eventually recorded as completed or failed.
C26_StartedJobSettles ==
    []AllCallsReturn => \A id \in Ids : RunStarted(id) ~> JobSettled(id)

\* The image files of a request: those named with an allowed extension.
ImageFiles(fs) == { i \in 1..Len(fs) : fs[i] = "recipe.jpg" }

\* The tasks of a queue that carry the id.
QueuedFor(q, id) == { i \in 1..Len(q) : q[i].external_recipe_id = id }

\* The tables the loop of upload_image leaves for a request of any size, the
\* ids it hands out being ids of no job.
UploadedFresh(fs) ==
    UploadFiles(fs, [ nextId |-> NumIds + 1, files |-> files, jobs |-> jobs,
                      queue |-> queue, now |-> now ])

\* C27: an upload request adds one pending job and one task per image file
\* of the request, each job's image saved on disk and its task carrying the
\* job's id and image path; the earlier jobs and tasks stay, and a request
\* whose parts are all unnamed or of a disallowed extension adds nothing. The
\* counts are those of the request's loop for requests of every size.
C27_OneJobAndTaskPerImage ==
    [][ /\ \A fs \in Requests :
              upload_image(fs) =>
                 LET added == DOMAIN jobs' \ DOMAIN jobs
                 IN  /\ DOMAIN jobs \subseteq DOMAIN jobs'
                     /\ Cardinality(added) = Cardinality(ImageFiles(fs))
                     /\ Len(queue') = Len(queue) + Cardinality(ImageFiles(fs))
                     /\ SubSeq(queue', 1, Len(queue)) = queue
                     /\ \A id \in DOMAIN jobs : jobs'[id] = jobs[id]
                     /\ \A id \in added :
                           /\ jobs'[id].status = "pending"
                           /\ jobs'[id].image_path \in files'
                           /\ jobs'[id].image_path \notin files
                           /\ \E i \in (Len(queue) + 1)..Len(queue') :
                                 /\ queue'[i].external_recipe_id = id
                                 /\ queue'[i].image_path = jobs'[id].image_path
                                 /\ ~ queue'[i].is_reprocessing
                                 /\ QueuedFor(queue', id) = {i}
                     /\ ImageFiles(fs) = {} => UNCHANGED <<jobs, queue, files>>
        /\ \A fs \in Requests :
              LET st == UploadedFresh(fs)
              IN  /\ Cardinality(DOMAIN st.jobs \ DOMAIN jobs)
                        = Cardinality(ImageFiles(fs))
                  /\ Len(st.queue) = Len(queue) + Cardinality(ImageFiles(fs))
                  /\ Cardinality(st.files \ files) = Cardinality(ImageFiles(fs))
                  /\ \A id \in DOMAIN st.jobs \ DOMAIN jobs :
                        /\ st.jobs[id].status = "pending"
                        /\ st.jobs[id].image_path \in st.files
                        /\ Cardinality(QueuedFor(st.queue, id)) = 1
      ]_vars

\* An uploaded image waits: its job is pending, its file is on disk, and one
\* task for it is queued.
C27_Witness ==
    \E id \in DOMAIN jobs :
        /\ jobs[id].status = "pending"
        /\ jobs[id].last_status = MsgUploadReceived
        /\ jobs[id].image_path \in files
        /\ Cardinality(QueuedFor(queue, id)) = 1
        /\ \A i \in QueuedFor(queue, id) : ~ queue[i].is_reprocessing

\* C28: a job whose status is pending, processing or completed has no
\* error_message.
C28_ErrorMessageOnlyOnFailure ==
    \A id \in DOMAIN jobs :
        jobs[id].status \in {"pending", "processing", "completed"}
            => jobs[id].error_message = NoneV

\* The statuses of a run and the chat calls of the structuring pass, by their
\* positions in the run's calls.
ParsingAt(r) ==
    { i \in 1..Len(r.calls) : r.calls[i].op = "status" /\ r.calls[i].message = MsgParsing }
StructureAt(r) ==
    { i \in 1..Len(r.calls) : r.calls[i].op = "chat" /\ r.calls[i].pass = "structure" }
ExtractAt(r) ==
    { i \in 1..Len(r.calls) : r.calls[i].op = "chat" /\ r.calls[i].pass = "extract" }

\* C29: the status "Parsing response from model..." comes after the call of
\* the extraction pass and before every call of the structuring pass: no run
\* calls the structuring model before it has sent that status.
C29_ParsingStatusBetweenPasses ==
    /\ \A s \in StructureAt(run) : \E p \in ParsingAt(run) : p < s
    /\ \A p \in ParsingAt(run) : \A e \in ExtractAt(run) : e < p

\* C30: the first status of a run is processing, with the message of a fresh
\* transcription for a task without is_reprocessing and the reprocessing
\* message for a task with it.
C30_FirstStatusNamesReprocessing ==
    (run.pc # "idle" /\ run.calls # << >>) =>
        /\ run.calls[1].op = "status"
        /\ run.calls[1].status = "processing"
        /\ run.calls[1].message =
              IF run.is_reprocessing THEN "Reprocessing your recipe..." ELSE MsgStarting

\* The completion POSTs of a run, by their positions in the run's calls.
CompleteAt(r) == { i \in 1..Len(r.calls) : r.calls[i].op = "complete" }

\* The vision model answered the run with text the extraction pass accepts.
ExtractionSucceeded ==
    /\ given # << >>
    /\ given[1].pass = "extract"
    /\ "content" \in DOMAIN given[1]
    /\ \/ ~ Blank(given[1].content)
       \/ given[1].content = "" /\ ~ Blank(given[1].thinking)

\* The structuring pass returned a recipe: its last answer parsed and
\* validated, or it was the last allowed attempt and held a fenced object.
StructuringSucceeded ==
    /\ StructGiven # << >>
    /\ AllAnswered
    /\ LET last == StructGiven[Len(StructGiven)]
       IN  \/ ParsesAndValidates(last)
           \/ Len(StructGiven) = MaxAttempts /\ TextOf(last).kind = "fenced_ok"

RowHoldsPayload(row, payload) ==
    /\ row.title = payload.title
    /\ row.image_path = payload.image_path
    /\ row.prep_time = payload.prep_time
    /\ row.cook_time = payload.cook_time
    /\ row.servings = payload.servings
    /\ row.notes = payload.notes
    /\ Len(row.ingredients) = Len(payload.ingredients)
    /\ \A i \in 1..Len(payload.ingredients) :
          /\ i <= Len(row.ingredients)
          /\ row.ingredients[i].item = payload.ingredients[i].item
          /\ row.ingredients[i].quantity = payload.ingredients[i].quantity
          /\ row.ingredients[i].unit = payload.ingredients[i].unit
    /\ Len(row.instructions) = Len(payload.instructions)
    /\ \A i \in 1..Len(payload.instructions) :
          /\ i <= Len(row.instructions)
          /\ row.instructions[i].description = payload.instructions[i]

\* Both completion requests have been served.
BothServed == \A h \in Handlers : handlers[h].pc \in {"done", "raised"}

\* C32: once two concurrent completion requests for one id have been served,
\* one recipe row exists for the id, it holds the fields, ingredients and
\* instructions of one of the two payloads, and the job is completed.
C32_ConcurrentCompletionsLeaveOneRecipe ==
    BothServed =>
        /\ Cardinality(Matching(ConcId)) = 1
        /\ \A k \in Matching(ConcId) :
              \E h \in Handlers :
                  RowHoldsPayload(rows[k], FullPayload(ConcId, handlers[h].d))
        /\ jobs[ConcId].status = "completed"

\* The records of an id.
RecordsOf(js, rs, id) ==
    << IF id \in DOMAIN js THEN js[id] ELSE NoneV,
       IF id \in DOMAIN rs THEN rs[id] ELSE NoneV >>

\* C33: a status webhook or a completion webhook for one id leaves the job
\* and the recipe of every other id as they were.
C33_WebhooksLeaveOtherIdsAlone ==
    [][ \A id \in StoreIds :
          ( \/ \E status \in PostedStatuses, message \in PostedMessages :
                  update_status(id, status, message)
            \/ \E d \in DraftIds : record_recipe(id, d) )
          => \A other \in StoreIds \ {id} :
                RecordsOf(jobs', recipes', other) = RecordsOf(jobs, recipes, other)
      ]_vars

\* The jobs table after the status webhook of a run announced processing at
\* time t.
Announced(js, id, t) == UpdateStatus(js, id, "processing", MsgStarting, t)

\* C34: after a reprocess request for a stored recipe, the announcement of
\* the new run, at once or one tick (less than the timeout) later, leaves
\* the job processing, and so does a sweep at that time: the job is not
\* marked failed however old its record is.
C34_SweepSparesFreshReprocessingRun ==
    [][ \A id \in Ids :
          (reprocess_recipe(id) /\ id \in DOMAIN recipes) =>
             \A t \in {now, now + TickStep} :
                 /\ Announced(jobs', id, t)[id].status = "processing"
                 /\ SweepJobs(Announced(jobs', id, t), t)[id].status = "processing"
      ]_vars

\* C35: a job's completed_at is set exactly when its status is completed or
\* failed.
C35_CompletedAtIffFinished ==
    \A id \in DOMAIN jobs :
        (jobs[id].completed_at # NoneV) <=> (jobs[id].status \in {"completed", "failed"})

\* The errors of a run that failed before its completion POST.
FailureErrors ==
    {"FileNotFoundError", "EmptyExtraction", "OllamaError", "TypeError", "StructuringFailure"}

\* C36: a completion payload is posted only by a run no model call of which
\* failed; it carries the mock recipe, or the recipe of the answer the
\* structuring pass accepted (a schema-valid object, or on the last attempt
\* a fenced one): its title is a string and each ingredient has an item.
C36_PayloadFromValidatedRecipe ==
    \A c \in CompleteAt(run) :
        LET payload == run.calls[c].payload
        IN  /\ run.error \notin FailureErrors
            /\ \A k \in 1..Len(given) : "error" \notin DOMAIN given[k]
            /\ payload.title \in {"Pancakes", "X", MockRecipe.title}
            /\ \A i \in 1..Len(payload.ingredients) :
                  /\ "item" \in DOMAIN payload.ingredients[i]
                  /\ payload.ingredients[i].item \in {"flour", "eggs", "sugar"}
            /\ IF skipOllama
               THEN /\ payload.title = MockRecipe.title
                    /\ payload.ingredients = MockRecipe.ingredients
               ELSE /\ ExtractionSucceeded
                    /\ StructGiven # << >>
                    /\ LET last == TextOf(StructGiven[Len(StructGiven)])
                       IN  /\ \/ last.kind = "object_ok"
                              \/ Len(StructGiven) = MaxAttempts /\ last.kind = "fenced_ok"
                           /\ payload.title = DraftOf(last.draft).title
                           /\ payload.ingredients = DraftOf(last.draft).ingredients

\* A run posted the recipe of a schema-valid answer of the structuring model.
C36_Witness ==
    /\ ~ skipOllama
    /\ CompleteAt(run) # {}
    /\ \A c \in CompleteAt(run) :
          /\ run.calls[c].payload.title = "Pancakes"
          /\ Len(run.calls[c].payload.ingredients) = 2

\* C37: a status webhook for an id that matches no job creates no job and
\* changes no job and no recipe, whatever it posts and whatever the state of
\* the jobs that exist.
C37_UnknownStatusWebhookIsNoOp ==
    [][ /\ \A status \in PostedStatuses, message \in PostedMessages :
              update_status(UnknownId, status, message)
                 => UNCHANGED <<jobs, recipes, files, queue>>
        /\ \A status \in PostedStatuses, message \in PostedMessages :
              UpdateStatus(jobs, UnknownId, status, message, now) = jobs
        /\ UnknownId \notin DOMAIN jobs
      ]_vars

\* A job is due for the sweep, which a handled webhook would run; the
\* webhook of an unknown id leaves it processing.
C37_Witness ==
    /\ UnknownId \notin DOMAIN jobs
    /\ \E id \in DOMAIN jobs : TimedOut(jobs[id], now)

\* C38: delete-failed-job removes the job of the id when it exists and is
\* failed, and nothing else of the jobs' identities; for a job that is
\* pending, processing or completed and for an unknown id it leaves every
\* job and every recipe as it is.
C38_DeleteFailedJobOnlyWhenFailed ==
    [][ /\ \A id \in StoreIds \cup {UnknownId} :
              delete_failed_job(id) =>
                 IF id \in DOMAIN jobs /\ jobs[id].status = "failed"
                 THEN DOMAIN jobs' = DOMAIN jobs \ {id}
                 ELSE jobs' = jobs /\ recipes' = recipes
        /\ \A id \in StoreIds \cup {UnknownId} :
              LET after == DeleteFailedJob(jobs, id, now)
              IN  IF id \in DOMAIN jobs /\ jobs[id].status = "failed"
                  THEN DOMAIN after = DOMAIN jobs \ {id}
                  ELSE after = jobs
      ]_vars

\* A failed job was deleted; the other job is still there and not failed.
C38_Witness ==
    /\ 1 \notin DOMAIN jobs
    /\ 2 \in DOMAIN jobs
    /\ jobs[2].status \in {"pending", "processing", "completed"}

====
